---- MODULE Spec2Model ----
(***************************************************************************)
(* A model of app-context-core: the AppContextBuilder, the AppContextInner *)
(* object list and lookup cache, and the eager (AppObjectRef) and lazy     *)
(* (LazyAppObjectRef) handles with their weak references.                  *)
(***************************************************************************)
EXTENDS Integers, Sequences, FiniteSets, TLC

\* ---------------------------------------------------------------- bounds
MaxObjs == 2
MaxHandles == 1
MaxSeqHandles == 2
MaxStrong == 2
NumThreads == 2

Threads == 1..NumThreads
\* the handle slots, and those that concurrent callers may fill
AllSlots == 1..MaxSeqHandles
Slots == 1..MaxHandles

\* ------------------------------------------------------ identities, metas
Names == {"svcA", "svcB"}
TypeNames == {"ReaderImpl", "WriterImpl"}

\* struct BaseInfo { name, type_name }, derive(PartialEq, Eq)
BaseInfo == [name : Names, type_name : TypeNames]

BI(n, ty) == [name |-> n, type_name |-> ty]

\* the concrete types a constructor can build
Classes == {"K1", "K2"}

\* struct ObjectMeta { type_info, deps, can_cast_to }, one per concrete type
ObjectMeta(k) ==
    IF k = "K1"
    THEN [type_info   |-> BI("svcA", "ReaderImpl"),
          deps        |-> {},
          can_cast_to |-> {}]
    ELSE [type_info   |-> BI("svcB", "WriterImpl"),
          deps        |-> {BI("svcA", "ReaderImpl")},
          can_cast_to |-> {BI("svcA", "ReaderImpl")}]

\* a plausible slip: compare the type tag only, ignoring the name
compat_with_type_only(meta, expected) ==
    \/ meta.type_info.type_name = expected.type_name
    \/ \E c \in meta.can_cast_to : c.type_name = expected.type_name

\* a plausible slip: the test against the type's own identity is left out
compat_with_caps_only(meta, expected) == expected \in meta.can_cast_to

\* ObjectMeta::compat_with
compat_with(meta, expected) ==
    IF meta.type_info = expected
    THEN TRUE
    ELSE IF expected \in meta.can_cast_to
         THEN TRUE
         ELSE FALSE

\* AbstractAppObject::try_cast_to: the view for a type tag exists exactly for
\* the concrete type's own tag and the tags of its declared capabilities
try_cast_to(meta, ty) ==
    \/ meta.type_info.type_name = ty
    \/ \E c \in meta.can_cast_to : c.type_name = ty

\* a plausible slip: keep scanning and return the last compatible object
RECURSIVE find_last_from(_, _, _, _)
find_last_from(objs, expected, i, acc) ==
    IF i > Len(objs)
    THEN acc
    ELSE find_last_from(objs, expected, i + 1,
             IF compat_with(ObjectMeta(objs[i]), expected) THEN i ELSE acc)

find_last(objs, expected) == find_last_from(objs, expected, 1, 0)

RECURSIVE find_from(_, _, _)
find_from(objs, expected, i) ==
    IF i > Len(objs)
    THEN 0
    ELSE IF compat_with(ObjectMeta(objs[i]), expected)
         THEN i
         ELSE find_from(objs, expected, i + 1)

\* self.objects.iter().find(|s| s.get_meta().compat_with(expected));
\* the result is the position of the object in the list, 0 for None
find(objs, expected) == find_from(objs, expected, 1)

\* a plausible slip: insert instead of entry().or_insert()
insert_overwrite(cache, expected, weak_ptr) ==
    [cache EXCEPT ![expected] = weak_ptr]

\* a plausible slip: the write replaces the map instead of adding to it
insert_replacing_map(cache, expected, weak_ptr) ==
    [k \in BaseInfo |-> IF k = expected THEN weak_ptr ELSE 0]

\* a plausible slip: the cache is keyed by the type tag alone
or_insert_by_type(cache, expected, weak_ptr) ==
    [k \in BaseInfo |->
        IF k.type_name = expected.type_name /\ cache[k] = 0
        THEN weak_ptr
        ELSE cache[k]]

\* w.entry(type_name).or_insert(HashMap::new()).entry(name).or_insert(weak)
or_insert(cache, expected, weak_ptr) ==
    IF cache[expected] # 0
    THEN cache
    ELSE [cache EXCEPT ![expected] = weak_ptr]

\* ------------------------------------------------------------------ state
VARIABLES
    objects,       \* AppContextInner.objects: the class of each object
    objStrong,     \* strong count of each object's Arc
    object_cache,  \* AppContextInner.object_cache: key -> position, 0 absent
    lock,          \* the RwLock around object_cache
    innerStrong,   \* strong count of Arc<AppContextInner>
    innerWeak,     \* Weak<AppContextInner> held by unresolved lazy handles
    bpc,           \* the builder: idle, factory, panicked, gone
    bnext,         \* the class the running factory builds
    handles,       \* the handles that consumers keep
    th             \* the position of each thread in its current call

vars == <<objects, objStrong, object_cache, lock, innerStrong, innerWeak,
          bpc, bnext, handles, th>>

EmptyCache == [b \in BaseInfo |-> 0]

FreeLock == [readers |-> {}, writer |-> 0]

NoHandle == [kind |-> "free", inner |-> 0, state |-> "none", runs |-> 0,
             late |-> FALSE, base_info |-> BI("svcA", "ReaderImpl"), T |-> "ReaderImpl"]

IdleThread == [pc |-> "idle", op |-> "none", h |-> 0,
               expected |-> BI("svcA", "ReaderImpl"), T |-> "ReaderImpl",
               target |-> 0, res |-> "none", hit |-> FALSE, uaf |-> FALSE,
               afterDrop |-> FALSE]

\* AppContextBuilder::new
Init ==
    /\ objects = <<>>
    /\ objStrong = <<>>
    /\ object_cache = EmptyCache
    /\ lock = FreeLock
    /\ innerStrong = 1
    /\ innerWeak = 0
    /\ bpc = "idle"
    /\ bnext = "K1"
    /\ handles = [s \in AllSlots |-> NoHandle]
    /\ th = [t \in Threads |-> IdleThread]

\* the AppContext values other than the builder's own
clones == innerStrong - (IF bpc = "gone" THEN 0 ELSE 1)

InnerPcs == {"rlock", "lookup", "scan", "wlock", "insert", "ret"}

\* a thread inside get_obj borrows the AppContext it was called on: a clone,
\* or the view that the builder lends to the running factory
InGetObj(t) == th[t].op = "get_obj" /\ th[t].pc \in InnerPcs

Borrowed == \E t \in Threads : InGetObj(t)

\* a thread inside try_downcast, or holding the &T it returned, borrows the handle
UsesHandle(t, s) == th[t].h = s /\ th[t].pc # "idle"

\* ------------------------------------------------------------ the builder
\* a plausible slip: the factories are started without waiting for the
\* registration in progress
StartRegisterOverlapping(k) ==
    /\ bpc \in {"idle", "factory"}
    /\ Len(objects) < MaxObjs
    /\ bpc' = "factory"
    /\ bnext' = k
    /\ UNCHANGED <<objects, objStrong, object_cache, lock, innerStrong,
                   innerWeak, handles, th>>

\* register / register_dyn, first half: builder(&self.inner) starts to run
StartRegister(k) ==
    /\ bpc = "idle"
    /\ Len(objects) < MaxObjs
    /\ bpc' = "factory"
    /\ bnext' = k
    /\ UNCHANGED <<objects, objStrong, object_cache, lock, innerStrong,
                   innerWeak, handles, th>>

\* a plausible slip: Arc::strong_count == 1 instead of Arc::get_mut
is_unique_strong_only == innerStrong = 1

\* Arc::get_mut(&mut self.inner.inner).is_some(): no other Arc and no Weak
is_unique == innerStrong = 1 /\ innerWeak = 0

\* register / register_dyn, second half: the factory has completed;
\* Arc::get_mut(..).expect("builder inner is wrongly cloned"), then
\* AppContextInner::register_dyn pushes the object
FinishRegister ==
    /\ bpc = "factory"
    /\ Borrowed => clones > 0
    /\ IF is_unique
       THEN /\ objects' = Append(objects, bnext)
            /\ objStrong' = Append(objStrong, 1)
            /\ bpc' = "idle"
       ELSE /\ bpc' = "panicked"
            /\ UNCHANGED <<objects, objStrong>>
    /\ bnext' = "K1"
    /\ UNCHANGED <<object_cache, lock, innerStrong, innerWeak, handles, th>>

\* consuming the builder yields the registry: the builder's AppContext
\* becomes an ordinary one
Finalize ==
    /\ bpc = "idle"
    /\ bpc' = "gone"
    /\ UNCHANGED <<objects, objStrong, object_cache, lock, innerStrong,
                   innerWeak, bnext, handles, th>>

\* AppContext::clone (derive(Clone)): one more Arc<AppContextInner>
CloneCtx ==
    /\ innerStrong > 0
    /\ bpc = "factory" \/ clones > 0
    /\ innerStrong < MaxStrong
    /\ innerStrong' = innerStrong + 1
    /\ UNCHANGED <<objects, objStrong, object_cache, lock, innerWeak, bpc,
                   bnext, handles, th>>

\* what drop(Arc<AppContextInner>) leaves: at strong count 0 the Vec of
\* objects and the cache are destroyed; the Vec releases its strong
\* reference to every object, and an object whose count reaches 0 is destroyed
ReleaseStrong ==
    /\ innerStrong' = innerStrong - 1
    /\ IF innerStrong = 1
       THEN /\ objStrong' = [i \in 1..Len(objStrong) |-> objStrong[i] - 1]
            /\ object_cache' = EmptyCache
            /\ lock' = FreeLock
       ELSE UNCHANGED <<objStrong, object_cache, lock>>

\* drop of an AppContext clone
DropCtx ==
    /\ clones > 0
    /\ Borrowed => (clones > 1 \/ bpc = "factory")
    /\ ReleaseStrong
    /\ UNCHANGED <<objects, innerWeak, bpc, bnext, handles, th>>

\* drop of the AppContextBuilder (also when its panic unwinds)
DropBuilder ==
    /\ bpc \in {"idle", "panicked"}
    /\ Borrowed => clones > 0
    /\ bpc' = "gone"
    /\ ReleaseStrong
    /\ UNCHANGED <<objects, innerWeak, bnext, handles, th>>

\* ------------------------------------------------- get_and_cache_inner
\* AppContext::get_obj::<T>(expected) is called on the builder's view (by a
\* running factory) or on a clone
get_obj(t, expected, T) ==
    /\ th[t].pc = "idle"
    /\ innerStrong > 0
    /\ bpc = "factory" \/ clones > 0
    /\ th' = [th EXCEPT ![t] = [IdleThread EXCEPT !.pc = "rlock",
                  !.op = "get_obj", !.expected = expected, !.T = T]]
    /\ UNCHANGED <<objects, objStrong, object_cache, lock, innerStrong,
                   innerWeak, bpc, bnext, handles>>

\* self.object_cache.read()
ReadLock(t) ==
    /\ th[t].pc = "rlock"
    /\ innerStrong > 0
    /\ lock.writer = 0
    /\ lock' = [lock EXCEPT !.readers = @ \cup {t}]
    /\ th' = [th EXCEPT ![t].pc = "lookup"]
    /\ UNCHANGED <<objects, objStrong, object_cache, innerStrong, innerWeak,
                   bpc, bnext, handles>>

\* a plausible slip: the lookup takes any entry cached for the type tag
LookupAnyName(t) ==
    /\ th[t].pc = "lookup"
    /\ innerStrong > 0
    /\ lock' = [lock EXCEPT !.readers = @ \ {t}]
    /\ LET same == {k \in BaseInfo : k.type_name = th[t].expected.type_name
                                        /\ object_cache[k] # 0}
       IN IF same # {}
          THEN th' = [th EXCEPT ![t].pc = "ret", ![t].hit = TRUE,
                         ![t].target = object_cache[CHOOSE k \in same : TRUE]]
          ELSE th' = [th EXCEPT ![t].pc = "scan"]
    /\ UNCHANGED <<objects, objStrong, object_cache, innerStrong, innerWeak,
                   bpc, bnext, handles>>

\* a plausible slip: on a miss the read guard is still alive during the scan
\* and the write() that follows
LookupKeepingGuard(t) ==
    /\ th[t].pc = "lookup"
    /\ innerStrong > 0
    /\ IF object_cache[th[t].expected] # 0
       THEN /\ th' = [th EXCEPT ![t].pc = "ret", ![t].hit = TRUE,
                                ![t].target = object_cache[th[t].expected]]
            /\ lock' = [lock EXCEPT !.readers = @ \ {t}]
       ELSE /\ th' = [th EXCEPT ![t].pc = "scan"]
            /\ lock' = lock
    /\ UNCHANGED <<objects, objStrong, object_cache, innerStrong, innerWeak,
                   bpc, bnext, handles>>

\* r.get(type_name).get(name): a hit returns the cached weak reference; the
\* read guard is dropped at the end of the match in both cases
Lookup(t) ==
    /\ th[t].pc = "lookup"
    /\ innerStrong > 0
    /\ lock' = [lock EXCEPT !.readers = @ \ {t}]
    /\ IF object_cache[th[t].expected] # 0
       THEN th' = [th EXCEPT ![t].pc = "ret", ![t].hit = TRUE,
                             ![t].target = object_cache[th[t].expected]]
       ELSE th' = [th EXCEPT ![t].pc = "scan"]
    /\ UNCHANGED <<objects, objStrong, object_cache, innerStrong, innerWeak,
                   bpc, bnext, handles>>

\* a plausible slip: a miss is remembered in the cache as well
ScanCachingMiss(t) ==
    /\ th[t].pc = "scan"
    /\ innerStrong > 0
    /\ LET target == find(objects, th[t].expected)
       IN /\ th' = [th EXCEPT ![t].target = target,
                              ![t].pc = IF target # 0 THEN "wlock" ELSE "ret"]
          /\ object_cache' = IF target # 0
                             THEN object_cache
                             ELSE [object_cache EXCEPT ![th[t].expected] = 0 - 1]
    /\ UNCHANGED <<objects, objStrong, lock, innerStrong, innerWeak, bpc,
                   bnext, handles>>

\* the linear scan; a miss returns None without touching the cache
Scan(t) ==
    /\ th[t].pc = "scan"
    /\ innerStrong > 0
    /\ LET target == find(objects, th[t].expected)
       IN th' = [th EXCEPT ![t].target = target,
                           ![t].pc = IF target # 0 THEN "wlock" ELSE "ret"]
    /\ UNCHANGED <<objects, objStrong, object_cache, lock, innerStrong,
                   innerWeak, bpc, bnext, handles>>

\* self.object_cache.write()
WriteLock(t) ==
    /\ th[t].pc = "wlock"
    /\ innerStrong > 0
    /\ lock.writer = 0
    /\ lock.readers = {}
    /\ lock' = [lock EXCEPT !.writer = t]
    /\ th' = [th EXCEPT ![t].pc = "insert"]
    /\ UNCHANGED <<objects, objStrong, object_cache, innerStrong, innerWeak,
                   bpc, bnext, handles>>

\* entry().or_insert(weak_ptr.clone()), then the write guard is dropped
Insert(t) ==
    /\ th[t].pc = "insert"
    /\ innerStrong > 0
    /\ object_cache' = or_insert(object_cache, th[t].expected, th[t].target)
    /\ lock' = [lock EXCEPT !.writer = 0]
    /\ th' = [th EXCEPT ![t].pc = "ret"]
    /\ UNCHANGED <<objects, objStrong, innerStrong, innerWeak, bpc, bnext,
                   handles>>

\* the lazy initializer went on with the &AppContextInner that weak_to_ref
\* gave it after the AppContextInner was destroyed: the read of freed memory
\* can produce any result
UseAfterFreeInner(t) ==
    /\ th[t].pc \in InnerPcs \ {"ret"}
    /\ innerStrong = 0
    /\ \E r \in 0..Len(objects) :
          th' = [th EXCEPT ![t].pc = "ret", ![t].target = r, ![t].uaf = TRUE]
    /\ UNCHANGED <<objects, objStrong, object_cache, lock, innerStrong,
                   innerWeak, bpc, bnext, handles>>

\* a plausible slip: the eager handle keeps an upgraded (strong) reference
GetObjReturnUpgrading(t, SS) ==
    /\ th[t].pc = "ret"
    /\ th[t].op = "get_obj"
    /\ IF th[t].target = 0
       THEN /\ th' = [th EXCEPT ![t].pc = "done", ![t].res = "None"]
            /\ UNCHANGED <<handles, objStrong>>
       ELSE /\ th' = [th EXCEPT ![t].pc = "done", ![t].res = "Some"]
            /\ \/ UNCHANGED <<handles, objStrong>>
               \/ \E s \in SS :
                     /\ handles[s].kind = "free"
                     /\ \A s2 \in SS : handles[s2].kind = "free" => s <= s2
                     /\ handles' = [handles EXCEPT ![s] =
                            [kind |-> "eager", inner |-> th[t].target,
                             state |-> "none", runs |-> 0, late |-> FALSE,
                             base_info |-> th[t].expected, T |-> th[t].T]]
                     /\ objStrong' = [objStrong EXCEPT ![th[t].target] = @ + 1]
    /\ UNCHANGED <<objects, object_cache, lock, innerStrong,
                   innerWeak, bpc, bnext>>

\* get_obj returns: .map(|weak| AppObjectRef::new(weak, expected)); the
\* caller keeps the handle (in a free slot) or drops it at once
GetObjReturn(t, SS) ==
    /\ th[t].pc = "ret"
    /\ th[t].op = "get_obj"
    /\ IF th[t].target = 0
       THEN /\ th' = [th EXCEPT ![t].pc = "done", ![t].res = "None"]
            /\ UNCHANGED handles
       ELSE /\ th' = [th EXCEPT ![t].pc = "done", ![t].res = "Some"]
            /\ \/ UNCHANGED handles
               \/ \E s \in SS :
                     /\ handles[s].kind = "free"
                     /\ \A s2 \in SS : handles[s2].kind = "free" => s <= s2
                     /\ handles' = [handles EXCEPT ![s] =
                            [kind |-> "eager", inner |-> th[t].target,
                             state |-> "none", runs |-> 0, late |-> FALSE,
                             base_info |-> th[t].expected, T |-> th[t].T]]
    /\ UNCHANGED <<objects, objStrong, object_cache, lock, innerStrong,
                   innerWeak, bpc, bnext>>

\* the call is over; the thread forgets it
Finish(t) ==
    /\ th[t].pc = "done"
    /\ th' = [th EXCEPT ![t] = IdleThread]
    /\ UNCHANGED <<objects, objStrong, object_cache, lock, innerStrong,
                   innerWeak, bpc, bnext, handles>>

\* ---------------------------------------------------------------- handles
\* a plausible slip: as_ptr().as_ref() without the strong_count test
weak_to_ref_unchecked(strong) == "Some"

\* util::weak_to_ref: None when strong_count() == 0, else a reference made
\* from the raw pointer (no upgrade: nothing keeps the target alive)
weak_to_ref(strong) == IF strong = 0 THEN "None" ELSE "Some"

\* a plausible slip: the lazy handle is resolved when it is created
get_lazy_obj_resolving(t, expected, T, SS) ==
    /\ th[t].pc = "idle"
    /\ innerStrong > 0
    /\ bpc = "factory" \/ clones > 0
    /\ lock = FreeLock
    /\ LET target == find(objects, expected)
       IN /\ \E s \in SS :
                /\ handles[s].kind = "free"
                /\ \A s2 \in SS : handles[s2].kind = "free" => s <= s2
                /\ handles' = [handles EXCEPT ![s] =
                       [kind |-> "lazy", inner |-> target, state |-> "done",
                        runs |-> 1, late |-> FALSE,
                        base_info |-> expected, T |-> T]]
          /\ object_cache' = IF target = 0
                             THEN object_cache
                             ELSE or_insert(object_cache, expected, target)
    /\ UNCHANGED <<objects, objStrong, lock, innerStrong, innerWeak, bpc,
                   bnext, th>>

\* AppContext::get_lazy_obj::<T>(expected): Arc::downgrade, then lazy_new
\* stores the closure; nothing is resolved
get_lazy_obj(t, expected, T, SS) ==
    /\ th[t].pc = "idle"
    /\ innerStrong > 0
    /\ bpc = "factory" \/ clones > 0
    /\ \E s \in SS :
          /\ handles[s].kind = "free"
          /\ \A s2 \in SS : handles[s2].kind = "free" => s <= s2
          /\ handles' = [handles EXCEPT ![s] =
                 [kind |-> "lazy", inner |-> 0, state |-> "uninit",
                  runs |-> 0, late |-> FALSE,
                  base_info |-> expected, T |-> T]]
    /\ innerWeak' = innerWeak + 1
    /\ UNCHANGED <<objects, objStrong, object_cache, lock, innerStrong, bpc,
                   bnext, th>>

\* LazyAppObjectRef::try_downcast is called on the handle in slot s
LazyTryDowncast(t, s) ==
    /\ th[t].pc = "idle"
    /\ handles[s].kind = "lazy"
    /\ th' = [th EXCEPT ![t] = [IdleThread EXCEPT !.pc = "force",
                  !.op = "lazy", !.h = s,
                  !.expected = handles[s].base_info, !.T = handles[s].T,
                  !.afterDrop = (innerStrong = 0)]]
    /\ UNCHANGED <<objects, objStrong, object_cache, lock, innerStrong,
                   innerWeak, bpc, bnext, handles>>

\* a plausible slip: a plain "is it set yet" test instead of a once-cell:
\* a caller that finds the value not yet stored runs the initializer too
ForceUnsynchronized(t) ==
    /\ th[t].pc = "force"
    /\ LET s == th[t].h
       IN IF handles[s].state = "done"
          THEN /\ th' = [th EXCEPT ![t].pc = "asref"]
               /\ UNCHANGED handles
          ELSE /\ handles' = [handles EXCEPT ![s].state = "running",
                                  ![s].runs = @ + 1,
                                  ![s].late = (innerStrong = 0)]
               /\ th' = [th EXCEPT ![t].pc = "winit"]
    /\ UNCHANGED <<objects, objStrong, object_cache, lock, innerStrong,
                   innerWeak, bpc, bnext>>

\* self.inner (LazyLock deref): the first caller runs the closure, a caller
\* that arrives while it runs waits, later callers read the stored value
Force(t) ==
    /\ th[t].pc = "force"
    /\ LET s == th[t].h
       IN \/ /\ handles[s].state = "done"
             /\ th' = [th EXCEPT ![t].pc = "asref"]
             /\ UNCHANGED handles
          \/ /\ handles[s].state = "uninit"
             /\ handles' = [handles EXCEPT ![s].state = "running",
                                ![s].runs = @ + 1,
                                ![s].late = (innerStrong = 0)]
             /\ th' = [th EXCEPT ![t].pc = "winit"]
    /\ UNCHANGED <<objects, objStrong, object_cache, lock, innerStrong,
                   innerWeak, bpc, bnext>>

\* init_f: let inner_ref = weak_to_ref(&arc)?;
WeakInit(t) ==
    /\ th[t].pc = "winit"
    /\ IF weak_to_ref(innerStrong) = "None"
       THEN th' = [th EXCEPT ![t].pc = "ret", ![t].target = 0]
       ELSE th' = [th EXCEPT ![t].pc = "rlock"]
    /\ UNCHANGED <<objects, objStrong, object_cache, lock, innerStrong,
                   innerWeak, bpc, bnext, handles>>

\* init_f returns: the LazyLock stores the Option and the consumed closure
\* drops its Weak<AppContextInner>
Memo(t) ==
    /\ th[t].pc = "ret"
    /\ th[t].op = "lazy"
    /\ handles' = [handles EXCEPT ![th[t].h].state = "done",
                                  ![th[t].h].inner = th[t].target]
    /\ innerWeak' = IF innerWeak > 0 THEN innerWeak - 1 ELSE 0
    /\ th' = [th EXCEPT ![t].pc = "asref"]
    /\ UNCHANGED <<objects, objStrong, object_cache, lock, innerStrong, bpc,
                   bnext>>

\* a plausible slip: a memoized "nothing" is resolved again
AsRefResolvingAgain(t) ==
    /\ th[t].pc = "asref"
    /\ IF handles[th[t].h].inner = 0
       THEN IF find(objects, th[t].expected) # 0 /\ innerStrong > 0
            THEN th' = [th EXCEPT ![t].pc = "winit"]
            ELSE th' = [th EXCEPT ![t].pc = "done", ![t].res = "ObjectNotFound"]
       ELSE th' = [th EXCEPT ![t].pc = "check",
                             ![t].target = handles[th[t].h].inner]
    /\ UNCHANGED <<objects, objStrong, object_cache, lock, innerStrong,
                   innerWeak, bpc, bnext, handles>>

\* a plausible slip: a lazy handle reports ObjectNotFound whenever the
\* registry is gone
AsRefCheckingLiveness(t) ==
    /\ th[t].pc = "asref"
    /\ IF handles[th[t].h].inner = 0 \/ innerStrong = 0
       THEN th' = [th EXCEPT ![t].pc = "done", ![t].res = "ObjectNotFound"]
       ELSE th' = [th EXCEPT ![t].pc = "check",
                             ![t].target = handles[th[t].h].inner]
    /\ UNCHANGED <<objects, objStrong, object_cache, lock, innerStrong,
                   innerWeak, bpc, bnext, handles>>

\* self.inner.as_ref().ok_or(ObjectNotFound)?
AsRef(t) ==
    /\ th[t].pc = "asref"
    /\ IF handles[th[t].h].inner = 0
       THEN th' = [th EXCEPT ![t].pc = "done", ![t].res = "ObjectNotFound"]
       ELSE th' = [th EXCEPT ![t].pc = "check",
                             ![t].target = handles[th[t].h].inner]
    /\ UNCHANGED <<objects, objStrong, object_cache, lock, innerStrong,
                   innerWeak, bpc, bnext, handles>>

\* AppObjectRef::try_downcast is called on the handle in slot s
EagerTryDowncast(t, s) ==
    /\ th[t].pc = "idle"
    /\ handles[s].kind = "eager"
    /\ th' = [th EXCEPT ![t] = [IdleThread EXCEPT !.pc = "check",
                  !.op = "eager", !.h = s,
                  !.expected = handles[s].base_info, !.T = handles[s].T,
                  !.target = handles[s].inner,
                  !.afterDrop = (innerStrong = 0)]]
    /\ UNCHANGED <<objects, objStrong, object_cache, lock, innerStrong,
                   innerWeak, bpc, bnext, handles>>

\* a plausible slip: the cast is tried before the existence test
CheckCastFirst(t) ==
    /\ th[t].pc = "check"
    /\ IF ~try_cast_to(ObjectMeta(objects[th[t].target]), th[t].T)
       THEN th' = [th EXCEPT ![t].pc = "done", ![t].res = "UnsupportedCast"]
       ELSE IF weak_to_ref(objStrong[th[t].target]) = "None"
            THEN th' = [th EXCEPT ![t].pc = "done",
                                  ![t].res = "AppContextDropped"]
            ELSE th' = [th EXCEPT ![t].pc = "cast"]
    /\ UNCHANGED <<objects, objStrong, object_cache, lock, innerStrong,
                   innerWeak, bpc, bnext, handles>>

\* cast_ref: let Some(r_ref) = weak_to_ref(weak_ptr) else AppContextDropped
Check(t) ==
    /\ th[t].pc = "check"
    /\ IF weak_to_ref(objStrong[th[t].target]) = "None"
       THEN th' = [th EXCEPT ![t].pc = "done", ![t].res = "AppContextDropped"]
       ELSE th' = [th EXCEPT ![t].pc = "cast"]
    /\ UNCHANGED <<objects, objStrong, object_cache, lock, innerStrong,
                   innerWeak, bpc, bnext, handles>>

\* cast_ref: r_ref.try_cast_to(type_name::<T>())? and the downcast to &T.
\* r_ref is read here; if the object was destroyed since the test in
\* weak_to_ref, the read is of a destroyed object and can produce anything
Cast(t) ==
    /\ th[t].pc = "cast"
    /\ IF objStrong[th[t].target] = 0
       THEN \E r \in {"Ok", "UnsupportedCast"} :
               th' = [th EXCEPT ![t].pc = IF r = "Ok" THEN "hold" ELSE "done",
                                ![t].res = r, ![t].uaf = TRUE]
       ELSE IF try_cast_to(ObjectMeta(objects[th[t].target]), th[t].T)
            THEN th' = [th EXCEPT ![t].pc = "hold", ![t].res = "Ok"]
            ELSE th' = [th EXCEPT ![t].pc = "done", ![t].res = "UnsupportedCast"]
    /\ UNCHANGED <<objects, objStrong, object_cache, lock, innerStrong,
                   innerWeak, bpc, bnext, handles>>

\* the caller reads through the &T that try_downcast returned (what Deref
\* hands out as well); its lifetime is that of the handle, not of the object
UseRef(t) ==
    /\ th[t].pc = "hold"
    /\ th' = [th EXCEPT ![t].pc = "done",
                        ![t].uaf = (@ \/ objStrong[th[t].target] = 0)]
    /\ UNCHANGED <<objects, objStrong, object_cache, lock, innerStrong,
                   innerWeak, bpc, bnext, handles>>

\* drop of a handle; an unresolved lazy handle still owns its closure and
\* the Weak<AppContextInner> in it
DropHandle(s) ==
    /\ handles[s].kind # "free"
    /\ \A t \in Threads : ~UsesHandle(t, s)
    /\ handles' = [handles EXCEPT ![s] = NoHandle]
    /\ innerWeak' = IF handles[s].kind = "lazy" /\ handles[s].state = "uninit"
                    THEN innerWeak - 1
                    ELSE innerWeak
    /\ UNCHANGED <<objects, objStrong, object_cache, lock, innerStrong, bpc,
                   bnext, th>>

\* ---------------------------------------------------------- specification
\* the calls the consumers make: get_obj::<T>(expected), get_lazy_obj::<T>(expected)
Calls ==
    { [expected |-> BI("svcA", "ReaderImpl"), T |-> "ReaderImpl"],
      [expected |-> BI("svcA", "ReaderImpl"), T |-> "WriterImpl"],
      [expected |-> BI("svcB", "WriterImpl"), T |-> "WriterImpl"],
      [expected |-> BI("svcB", "ReaderImpl"), T |-> "ReaderImpl"] }

\* the builder and the owners of the AppContext clones
Environment ==
    \/ \E k \in Classes : StartRegister(k)
    \/ FinishRegister
    \/ Finalize
    \/ CloneCtx
    \/ DropCtx
    \/ DropBuilder
    \/ \E s \in AllSlots : DropHandle(s)

\* a thread goes on with the call it is in
Step(t, SS) ==
    \/ ReadLock(t)
    \/ Lookup(t)
    \/ Scan(t)
    \/ WriteLock(t)
    \/ Insert(t)
    \/ UseAfterFreeInner(t)
    \/ GetObjReturn(t, SS)
    \/ Finish(t)
    \/ Force(t)
    \/ WeakInit(t)
    \/ Memo(t)
    \/ AsRef(t)
    \/ Check(t)
    \/ Cast(t)
    \/ UseRef(t)

\* a thread starts a call
Start(t, SS) ==
    \/ \E c \in Calls : get_obj(t, c.expected, c.T)
    \/ \E c \in Calls : get_lazy_obj(t, c.expected, c.T, SS)
    \/ \E s \in SS : LazyTryDowncast(t, s)
    \/ \E s \in SS : EagerTryDowncast(t, s)

\* any number of threads call at once
Next ==
    \/ Environment
    \/ \E t \in Threads : Start(t, Slots)
    \/ \E t \in Threads : Step(t, Slots)

Spec == Init /\ [][Next]_vars

\* a single caller, over more handles
NextSeq ==
    \/ Environment
    \/ Start(1, AllSlots)
    \/ Step(1, AllSlots)

SpecSeq == Init /\ [][NextSeq]_vars

\* the registry after a build: AppContextBuilder::collected has registered
\* the objects and the caller holds the one AppContext
InitLive ==
    /\ objects \in {<<"K1", "K2">>, <<"K2", "K1">>}
    /\ objStrong = <<1, 1>>
    /\ object_cache = EmptyCache
    /\ lock = FreeLock
    /\ innerStrong = 1
    /\ innerWeak = 0
    /\ bpc = "gone"
    /\ bnext = "K1"
    /\ handles = [s \in AllSlots |-> NoHandle]
    /\ th = [t \in Threads |-> IdleThread]

\* the steps of a call that wait for nothing
Proceed(t) ==
    \/ Lookup(t)
    \/ Scan(t)
    \/ Insert(t)
    \/ GetObjReturn(t, Slots)
    \/ Force(t)
    \/ WeakInit(t)
    \/ Memo(t)
    \/ AsRef(t)
    \/ Check(t)
    \/ Cast(t)
    \/ UseRef(t)

\* resolvers on a registry that stays alive
NextLive ==
    \/ \E t \in Threads : Start(t, Slots)
    \/ \E t \in Threads : ReadLock(t)
    \/ \E t \in Threads : WriteLock(t)
    \/ \E t \in Threads : Proceed(t)
    \/ \E t \in Threads : Finish(t)
    \/ \E s \in Slots : DropHandle(s)

\* every thread that can take a step eventually takes it, and the RwLock
\* serves every waiter: a read() or write() that can be granted again and
\* again is eventually granted
FairLive ==
    \A t \in Threads :
        /\ WF_vars(Proceed(t))
        /\ SF_vars(ReadLock(t))
        /\ SF_vars(WriteLock(t))

SpecLive == InitLive /\ [][NextLive]_vars /\ FairLive

\* ------------------------------------------------------------------ claims
\* object i is compatible with the requested identity
Compatible(i, expected) == compat_with(ObjectMeta(objects[i]), expected)

\* get_and_cache_inner has returned to thread t and did not read freed memory
Resolved(t) == th[t].pc = "ret" /\ ~th[t].uaf

KeyA == BI("svcA", "ReaderImpl")

\* C1: first-registered-wins. Whenever get_and_cache_inner returns (to get_obj
\* or to a lazy handle's initializer, from the cache or from the scan) while
\* some registered object is compatible with the request, it returns the
\* earliest registered compatible object, whatever the other threads do.
C1_FirstRegisteredWins ==
    \A t \in Threads :
        (Resolved(t) /\ innerStrong > 0
           /\ \E a \in 1..Len(objects) : Compatible(a, th[t].expected))
        => /\ th[t].target \in 1..Len(objects)
           /\ Compatible(th[t].target, th[t].expected)
           /\ \A j \in 1..(th[t].target - 1) : ~Compatible(j, th[t].expected)

\* two compatible objects are registered; one thread got the first of them
\* from its scan inside get_obj while the other got it from the cache
\* through a lazy handle
C1_Witness ==
    /\ Len(objects) = 2
    /\ Compatible(1, KeyA) /\ Compatible(2, KeyA)
    /\ \E t, u \in Threads :
          /\ Resolved(t) /\ th[t].op = "get_obj" /\ ~th[t].hit
          /\ Resolved(u) /\ th[u].op = "lazy" /\ th[u].hit
          /\ th[t].expected = KeyA /\ th[u].expected = KeyA
          /\ th[t].target = 1 /\ th[u].target = 1

\* C2: cache coherence. Every cache entry refers to the object that a linear
\* scan of the current objects list for the entry's key meets first.
C2_CacheCoherence ==
    \A k \in BaseInfo :
        object_cache[k] # 0 =>
            /\ object_cache[k] \in 1..Len(objects)
            /\ Compatible(object_cache[k], k)
            /\ \A j \in 1..(object_cache[k] - 1) : ~Compatible(j, k)

\* the entry was made by a factory during the build (nobody but the builder
\* ever held the registry) and a second compatible object was registered
\* after it
C2_Witness ==
    /\ bpc = "idle"
    /\ innerStrong = 1
    /\ objects = <<"K1", "K2">>
    /\ object_cache[KeyA] = 1
    /\ \E s \in AllSlots : handles[s].kind = "eager" /\ handles[s].inner = 1

\* C3: lifetime safety of handles. No step of try_downcast, of the lazy
\* initializer or of a caller that uses the returned &T reads an object or
\* the registry core after it has been destroyed.
C3_NoUseAfterFree == \A t \in Threads : ~th[t].uaf

\* C4: after the registry is dropped, try_downcast on an eager handle fails
\* with AppContextDropped, and try_downcast on a lazy handle whose first
\* access comes after the drop fails with ObjectNotFound.
C4_AfterDrop ==
    \A t \in Threads :
        th[t].pc = "done" =>
            /\ (th[t].op = "eager" /\ th[t].afterDrop)
                   => th[t].res = "AppContextDropped"
            /\ (th[t].op = "lazy" /\ handles[th[t].h].late)
                   => th[t].res = "ObjectNotFound"

\* the registry is gone; the lazy handle was first accessed after the drop
\* and the eager handle's try_downcast has just failed
C4_Witness ==
    /\ innerStrong = 0
    /\ Len(objects) > 0
    /\ \E s \in AllSlots :
          /\ handles[s].kind = "lazy" /\ handles[s].state = "done"
          /\ handles[s].late /\ handles[s].inner = 0
    /\ \E t \in Threads :
          /\ th[t].pc = "done" /\ th[t].op = "eager" /\ th[t].afterDrop
          /\ th[t].res = "AppContextDropped"

\* the threads that run the initializer of the lazy handle in slot s
Initializers(s) ==
    {t \in Threads : th[t].op = "lazy" /\ th[t].h = s
                        /\ th[t].pc \in InnerPcs \cup {"winit"}}

\* C5: the deferred resolution of a lazy handle runs at most once in the
\* handle's life: never two threads inside the initializer, and every caller
\* that got past the once-cell works on the outcome the initializer stored.
C5_LazyOnce ==
    \A s \in AllSlots :
        /\ handles[s].runs <= 1
        /\ Cardinality(Initializers(s)) <= 1
        /\ \A t \in Threads :
              (th[t].op = "lazy" /\ th[t].h = s
                 /\ th[t].pc \in {"check", "cast", "hold", "done"})
              => /\ handles[s].state = "done"
                 /\ handles[s].inner # 0 => th[t].target = handles[s].inner
                 /\ handles[s].inner = 0 => th[t].res = "ObjectNotFound"

\* two callers raced on the first access: one runs the initializer (it
\* is in the scan), the other waits at the once-cell
C5_Witness ==
    \E s \in AllSlots, t, u \in Threads :
        /\ t # u
        /\ handles[s].kind = "lazy" /\ handles[s].state = "running"
        /\ th[t].op = "lazy" /\ th[t].h = s /\ th[t].pc = "scan"
        /\ th[u].op = "lazy" /\ th[u].h = s /\ th[u].pc = "force"

\* C6: lazy handle freeze. Once the first access has stored its outcome the
\* handle never changes again, whatever is registered later, and every
\* try_downcast on a handle that stored "nothing" reports ObjectNotFound.
C6_LazyFreeze ==
    /\ [][\A s \in AllSlots :
             (handles[s].kind = "lazy" /\ handles[s].state = "done")
             => (handles'[s] = handles[s] \/ handles'[s] = NoHandle)]_vars
    /\ [](\A t \in Threads :
             (th[t].pc = "done" /\ th[t].op = "lazy"
                /\ handles[th[t].h].inner = 0)
             => th[t].res = "ObjectNotFound")

\* the handle was first accessed before a compatible object was registered;
\* the object is registered and alive now, and try_downcast still reports
\* ObjectNotFound
C6_Witness ==
    \E t \in Threads :
        /\ th[t].pc = "done" /\ th[t].op = "lazy"
        /\ th[t].res = "ObjectNotFound"
        /\ handles[th[t].h].state = "done" /\ handles[th[t].h].inner = 0
        /\ ~handles[th[t].h].late
        /\ innerStrong > 0
        /\ \E i \in 1..Len(objects) : Compatible(i, handles[th[t].h].base_info)

\* the declared compatibility of object i with the identity r: the object's
\* own name and type tag both equal r's, or r is in its capability list
Declared(i, r) ==
    LET m == ObjectMeta(objects[i])
    IN \/ (m.type_info.name = r.name /\ m.type_info.type_name = r.type_name)
       \/ \E c \in m.can_cast_to : c.name = r.name /\ c.type_name = r.type_name

\* object i can be viewed as the type tag ty, under whatever name
ViewableAs(i, ty) ==
    LET m == ObjectMeta(objects[i])
    IN \/ m.type_info.type_name = ty
       \/ \E c \in m.can_cast_to : c.type_name = ty

KeyB == BI("svcB", "WriterImpl")

\* a request for a type that objects can be viewed as, under another name
KeyOther == BI("svcB", "ReaderImpl")

\* C7: resolution is sound for the declared compatibility. Whatever
\* get_and_cache_inner returns, and whatever an eager handle refers to, is a
\* registered object whose own identity is the request or whose capability
\* list contains the request.
C7_ResolutionSound ==
    /\ \A t \in Threads :
          (Resolved(t) /\ th[t].target # 0)
          => (th[t].target \in 1..Len(objects) /\ Declared(th[t].target, th[t].expected))
    /\ \A s \in AllSlots :
          handles[s].kind = "eager"
          => (handles[s].inner \in 1..Len(objects)
                 /\ Declared(handles[s].inner, handles[s].base_info))

\* one thread got an object through its capability list; another asked for
\* an identity that shares the name of a registered object and a type tag it
\* can be viewed as, and got nothing
C7_Witness ==
    \E t, u \in Threads :
        /\ Resolved(t) /\ th[t].expected = KeyA /\ th[t].target = 1
        /\ objects[1] = "K2"
        /\ Resolved(u) /\ th[u].expected = KeyOther /\ th[u].target = 0
        /\ innerStrong > 0

\* C8 as stated: the name of the request is not filtered on; a request whose
\* type tag is one that a registered object can be viewed as resolves to the
\* first such object even when the name differs.
C8_NameNotFiltered ==
    \A t \in Threads :
        (Resolved(t) /\ innerStrong > 0
           /\ \E i \in 1..Len(objects) : ViewableAs(i, th[t].expected.type_name))
        => /\ th[t].target \in 1..Len(objects)
           /\ ViewableAs(th[t].target, th[t].expected.type_name)
           /\ \A j \in 1..(th[t].target - 1) :
                 ~ViewableAs(j, th[t].expected.type_name)

\* C8 amended: the name is compared. A request whose type tag is one that a
\* registered object can be viewed as, but whose (name, type tag) pair is
\* neither the own identity nor a declared capability of any registered
\* object, resolves to nothing.
C8_NameFiltered ==
    \A t \in Threads :
        (Resolved(t) /\ innerStrong > 0
           /\ (\E i \in 1..Len(objects) : ViewableAs(i, th[t].expected.type_name))
           /\ \A i \in 1..Len(objects) : ~Declared(i, th[t].expected))
        => th[t].target = 0

\* get_obj for the type tag of a registered object under another name has
\* scanned the list and returns nothing
C8_Witness ==
    \E t \in Threads :
        /\ Resolved(t) /\ th[t].op = "get_obj" /\ ~th[t].hit
        /\ th[t].expected = KeyOther /\ th[t].target = 0
        /\ innerStrong > 0
        /\ objects = <<"K1", "K2">>

\* some registered object has the identity r as its own
OwnIdentity(r) == \E i \in 1..Len(objects) : ObjectMeta(objects[i]).type_info = r

\* C9: resolving the own identity of a registered object always yields a
\* reference, and try_downcast to that identity's type on the handle never
\* fails with UnsupportedCast: it succeeds whenever the object still exists.
C9_OwnIdentityResolves ==
    \A t \in Threads :
        /\ (Resolved(t) /\ innerStrong > 0 /\ OwnIdentity(th[t].expected))
              => th[t].target # 0
        /\ (th[t].pc = "done" /\ th[t].op \in {"eager", "lazy"} /\ ~th[t].uaf
               /\ OwnIdentity(th[t].expected)
               /\ th[t].T = th[t].expected.type_name)
              => th[t].res \in {"Ok", "AppContextDropped", "ObjectNotFound"}
        /\ (th[t].pc = "done" /\ th[t].op = "eager" /\ ~th[t].uaf
               /\ OwnIdentity(th[t].expected)
               /\ th[t].T = th[t].expected.type_name
               /\ objStrong[th[t].target] > 0)
              => th[t].res = "Ok"

\* K1 was registered after K2, which declares K1's identity as a capability:
\* the handle for K1's own identity refers to K2 and its downcast succeeded
C9_Witness ==
    \E t \in Threads :
        /\ objects = <<"K2", "K1">>
        /\ th[t].pc = "done" /\ th[t].op = "eager" /\ th[t].res = "Ok"
        /\ th[t].expected = KeyA /\ th[t].T = "ReaderImpl"
        /\ th[t].target = 1
        /\ innerStrong > 0

\* C10: misses are never cached. When no registered object is compatible
\* with the request, get_and_cache_inner returns nothing and the cache has no
\* entry for the request; once a compatible object is registered the next
\* resolution finds it.
C10_MissNotCached ==
    \A t \in Threads :
        (Resolved(t) /\ innerStrong > 0) =>
            IF \A i \in 1..Len(objects) : ~Declared(i, th[t].expected)
            THEN th[t].target = 0 /\ object_cache[th[t].expected] = 0
            ELSE th[t].target # 0

\* a lazy handle keeps the "nothing" of an earlier miss for K2's identity;
\* K2 was registered since, and a new get_obj for the same identity missed
\* the cache, scanned and found it
C10_Witness ==
    \E t \in Threads, s \in AllSlots :
        /\ handles[s].kind = "lazy" /\ handles[s].state = "done"
        /\ handles[s].inner = 0 /\ ~handles[s].late
        /\ handles[s].base_info = KeyB
        /\ Resolved(t) /\ th[t].op = "get_obj" /\ ~th[t].hit
        /\ th[t].expected = KeyB /\ th[t].target # 0

\* C11: resolution is idempotent. Two resolutions of one identity with no
\* registration between them return the same object or both nothing; a
\* resolution after an earlier one that found an object (whose eager handle
\* is still held) returns that object; and when a resolution returns, the
\* cache holds for its key exactly what it returned (nothing after a miss),
\* so that a second call has nothing to add.
C11_Idempotent ==
    \A t \in Threads :
        (Resolved(t) /\ innerStrong > 0) =>
            /\ object_cache[th[t].expected] = th[t].target
            /\ \A u \in Threads :
                  (Resolved(u) /\ th[u].expected = th[t].expected)
                  => th[u].target = th[t].target
            /\ \A s \in AllSlots :
                  (handles[s].kind = "eager"
                     /\ handles[s].base_info = th[t].expected)
                  => th[t].target = handles[s].inner

\* the first get_obj found the object by its scan and its handle is kept;
\* a second get_obj for the same identity was served by the cache and
\* returns the same object
C11_Witness ==
    \E t \in Threads, s \in AllSlots :
        /\ handles[s].kind = "eager" /\ handles[s].base_info = KeyB
        /\ Resolved(t) /\ th[t].op = "get_obj" /\ th[t].hit
        /\ th[t].expected = KeyB
        /\ th[t].target = handles[s].inner
        /\ innerStrong > 0

\* C12: when the factory of a registration has completed, the registration
\* appends exactly one object at the end of the list and leaves the earlier
\* entries as they were, or it is fatal and appends nothing; it is fatal
\* exactly when a strong reference to the inner storage other than the
\* builder's is live, and succeeds whenever the builder is the sole strong
\* owner. The list changes in no other step.
C12_AppendOrFatal ==
    [][ /\ (bpc = "factory" /\ bpc' # "factory") =>
            IF innerStrong = 1
            THEN /\ bpc' = "idle"
                 /\ objects' = Append(objects, bnext)
            ELSE /\ bpc' = "panicked"
                 /\ objects' = objects
        /\ ~(bpc = "factory" /\ bpc' # "factory") => objects' = objects
      ]_vars

\* C13: handles never extend the registry's lifetime. The strong count of
\* the inner storage is the number of AppContext values (the builder's and
\* the clones) and grows only when an AppContext is cloned, never in a step
\* that creates, resolves, downcasts or drops a handle; every object has
\* exactly the strong reference of the objects list while the inner storage
\* lives, and none once the last AppContext is dropped, whatever handles
\* are still alive.
C13_HandlesOwnNothing ==
    /\ [](\A i \in 1..Len(objects) :
             objStrong[i] = IF innerStrong > 0 THEN 1 ELSE 0)
    /\ [][ /\ innerStrong' > innerStrong => (handles' = handles /\ th' = th)
           /\ (handles' # handles \/ th' # th) => innerStrong' = innerStrong
         ]_vars

\* the last AppContext was dropped while an eager handle and a resolved
\* lazy handle to registered objects were alive: the objects are destroyed
C13_Witness ==
    /\ innerStrong = 0
    /\ \E s \in AllSlots : handles[s].kind = "eager" /\ handles[s].inner # 0
    /\ \E s \in AllSlots :
          /\ handles[s].kind = "lazy" /\ handles[s].state = "done"
          /\ handles[s].inner # 0
    /\ \A i \in 1..Len(objects) : objStrong[i] = 0

\* C14: the lock protocol of get_and_cache_inner. A thread holds the read
\* lock only while it looks the key up: it has released it before the scan
\* and before it asks for the write lock, so it never waits for the write
\* lock while holding the read lock; the write lock is held only for the
\* insertion and excludes readers. With any resolvers running and a fair
\* scheduler, every resolution eventually returns.
C14_LockProtocol ==
    /\ [](\A t \in Threads :
             /\ (t \in lock.readers) <=> (th[t].pc = "lookup")
             /\ (lock.writer = t) <=> (th[t].pc = "insert")
             /\ th[t].pc \in {"scan", "wlock"} => t \notin lock.readers)
    /\ [](lock.writer # 0 => lock.readers = {})
    /\ \A t \in Threads :
          (th[t].pc \in InnerPcs) ~> (th[t].pc = "ret")

\* one thread waits for the write lock, holding no lock, while the other
\* thread holds the read lock
C14_Witness ==
    \E t \in Threads, u \in Threads :
        /\ th[t].pc = "wlock" /\ t \notin lock.readers
        /\ th[u].pc = "lookup" /\ u \in lock.readers

\* C15: insert-if-absent under a race. Resolvers that miss the same key at
\* the same time all return the same object, and the cache then holds for
\* the key the one entry that refers to that object; an entry, once in the
\* cache, is never overwritten or removed by a later resolution as long as
\* the registry lives.
C15_InsertIfAbsent ==
    /\ [](\A t \in Threads :
             (Resolved(t) /\ ~th[t].hit /\ th[t].target # 0 /\ innerStrong > 0) =>
                 /\ object_cache[th[t].expected] = th[t].target
                 /\ \A u \in Threads :
                       (Resolved(u) /\ th[u].expected = th[t].expected)
                       => th[u].target = th[t].target)
    /\ [][ \A k \in BaseInfo :
              (object_cache[k] # 0 /\ innerStrong' > 0)
              => object_cache'[k] = object_cache[k] ]_vars

\* two threads missed the same key, both scanned and both went through the
\* write lock; they return the same object and the cache holds it
C15_Witness ==
    /\ innerStrong > 0
    /\ \A t \in Threads :
          /\ Resolved(t) /\ ~th[t].hit
          /\ th[t].expected = KeyA /\ th[t].target # 0
    /\ object_cache[KeyA] # 0
    /\ object_cache[KeyB] # 0

\* thread t is in a try_downcast, or at its end
InDowncast(t) == th[t].op \in {"eager", "lazy"}

\* C16: the error of try_downcast. A lazy handle whose memo is "nothing"
\* gives ObjectNotFound, before any other test, and nothing else gives it.
\* Otherwise the existence of the target is tested first: AppContextDropped
\* is the result exactly when the target no longer exists at that test,
\* whether or not the cast could succeed; when the target exists,
\* UnsupportedCast is the result exactly when the object has no view for T,
\* and the call succeeds otherwise.
C16_ErrorClasses ==
    /\ [](\A t \in Threads :
             (InDowncast(t) /\ th[t].pc = "done") =>
                 /\ th[t].res \in {"Ok", "UnsupportedCast", "AppContextDropped",
                                    "ObjectNotFound"}
                 /\ (th[t].res = "ObjectNotFound") <=>
                        (th[t].op = "lazy" /\ handles[th[t].h].inner = 0)
                 /\ th[t].res = "AppContextDropped" =>
                        (th[t].target # 0 /\ objStrong[th[t].target] = 0)
                 /\ (th[t].res = "UnsupportedCast" /\ ~th[t].uaf) =>
                        ~ViewableAs(th[t].target, th[t].T)
                 /\ (th[t].res = "Ok" /\ ~th[t].uaf) =>
                        ViewableAs(th[t].target, th[t].T))
    /\ [][ \A t \in Threads :
              /\ (th[t].pc = "asref" /\ th'[t].pc # "asref") =>
                     IF handles[th[t].h].inner = 0
                     THEN th'[t].pc = "done" /\ th'[t].res = "ObjectNotFound"
                     ELSE th'[t].pc = "check"
              /\ (th[t].pc = "check" /\ th'[t].pc # "check") =>
                     IF objStrong[th[t].target] = 0
                     THEN th'[t].pc = "done" /\ th'[t].res = "AppContextDropped"
                     ELSE th'[t].pc = "cast"
              /\ (th[t].pc = "cast" /\ th'[t].pc # "cast"
                     /\ objStrong[th[t].target] > 0) =>
                     IF ViewableAs(th[t].target, th[t].T)
                     THEN th'[t].res = "Ok"
                     ELSE th'[t].pc = "done" /\ th'[t].res = "UnsupportedCast"
         ]_vars

\* the target of an eager handle was destroyed and the object had no view
\* for T: the existence test comes first and the error is AppContextDropped
C16_Witness ==
    \E t \in Threads :
        /\ th[t].pc = "done" /\ th[t].op = "eager"
        /\ th[t].res = "AppContextDropped"
        /\ ~ViewableAs(th[t].target, th[t].T)

\* C17: get_lazy_obj performs no resolution. The step that creates a lazy
\* handle leaves the cache and the objects as they are and returns an
\* unresolved handle, whether or not a compatible object exists; the cache
\* changes only in the insertion of a resolution, and for a lazy handle
\* that resolution is the one its first access runs.
C17_LazyCreationResolvesNothing ==
    [][ /\ \A s \in AllSlots :
              (handles[s].kind # "lazy" /\ handles'[s].kind = "lazy") =>
                  /\ object_cache' = object_cache
                  /\ objects' = objects /\ objStrong' = objStrong
                  /\ lock' = lock /\ th' = th
                  /\ handles'[s].state = "uninit" /\ handles'[s].runs = 0
        /\ (object_cache' # object_cache /\ innerStrong' > 0) =>
              \E t \in Threads :
                  /\ th[t].pc = "insert" /\ th'[t].pc = "ret"
                  /\ th[t].op = "lazy" =>
                        (handles[th[t].h].state = "running"
                           /\ handles[th[t].h].runs = 1)
      ]_vars

\* a lazy handle was created for an identity that no registered object is
\* compatible with; it is unresolved and the cache is still empty
C17_Witness ==
    /\ Len(objects) > 0 /\ innerStrong > 0
    /\ \E s \in AllSlots :
          /\ handles[s].kind = "lazy" /\ handles[s].state = "uninit"
          /\ handles[s].base_info = KeyOther
          /\ find(objects, KeyOther) = 0
    /\ object_cache = EmptyCache

\* C18: the build is strictly serial. The objects list changes only when a
\* factory has completed, by the append of that factory's object, and that
\* happens before the next factory starts: a factory starts only when no
\* registration is in progress. While a factory runs, the list it sees is
\* the list of the objects registered before it; and as long as the factory
\* has not completed, no later registration can start, so the build goes on
\* only when the factory terminates.
C18_SerialBuild ==
    /\ [][ /\ objects' # objects =>
                (bpc = "factory" /\ bpc' = "idle"
                   /\ objects' = Append(objects, bnext))
           /\ (bpc' = "factory" /\ (bpc # "factory" \/ bnext' # bnext)) =>
                bpc = "idle"
           /\ (bpc = "factory" /\ bpc' = "factory") =>
                (objects' = objects /\ bnext' = bnext)
           /\ (bpc = "factory" /\ bpc' # "factory") =>
                bpc' \in {"idle", "panicked"}
         ]_vars
    /\ [](bpc = "factory" => ~ENABLED (\E k \in Classes : StartRegister(k)))

\* the second factory runs and has resolved, through its view, the object
\* that was registered before it; its own object is not in the list yet
C18_Witness ==
    /\ bpc = "factory" /\ bnext = "K2" /\ clones = 0
    /\ objects = <<"K1">>
    /\ \E t \in Threads :
          Resolved(t) /\ th[t].op = "get_obj" /\ th[t].target = 1

\* C19: handles obtained by a factory do not block the build. When a factory
\* completes and no clone of the registry is kept, whatever eager and lazy
\* handles were created from the factory's view and are still alive, the
\* registration appends its object and the builder goes on without a fatal
\* error.
C19_HandlesDoNotBlockBuild ==
    [][ (bpc = "factory" /\ bpc' # "factory" /\ clones = 0) =>
            (bpc' = "idle" /\ Len(objects') = Len(objects) + 1) ]_vars

\* C20: a lazy handle after the registry is dropped. A handle that found
\* its object while the registry was alive behaves like an eager handle
\* from then on: a try_downcast made after the drop gives AppContextDropped,
\* never ObjectNotFound. A handle whose first access came after the drop
\* stored "nothing", and that access and every later one give
\* ObjectNotFound.
C20_LazyAfterDrop ==
    /\ \A s \in AllSlots :
          (handles[s].kind = "lazy" /\ handles[s].state = "done"
             /\ handles[s].late) => handles[s].inner = 0
    /\ \A t \in Threads :
          (th[t].pc = "done" /\ th[t].op = "lazy") =>
              /\ (th[t].afterDrop /\ handles[th[t].h].inner # 0) =>
                     th[t].res = "AppContextDropped"
              /\ handles[th[t].h].late => th[t].res = "ObjectNotFound"

\* the handle found its object while the registry was alive; the registry
\* was dropped, and a try_downcast made afterwards gave AppContextDropped
C20_Witness ==
    \E t \in Threads :
        /\ th[t].pc = "done" /\ th[t].op = "lazy" /\ th[t].afterDrop
        /\ handles[th[t].h].state = "done" /\ handles[th[t].h].inner # 0
        /\ ~handles[th[t].h].late
        /\ th[t].res = "AppContextDropped"
        /\ innerStrong = 0

====
